---- MODULE Spec2Model ----
\* Lifetime<T> of lifetime.hpp: a runtime-checked ownership and borrowing
\* handle.  Every handle holds five pointers to heap objects shared by its
\* group: the value (m_T), the owner cell (m_owner, pointer to a Lifetime
\* pointer), the mutator cell (m_mutator, pointer to a LifetimeMutator
\* pointer), the mutex (m_mutex) and the member set (m_refs).  A handle is
\* identified by its address; the address of a destroyed handle can be taken
\* by a later handle.
\*
\* The heap objects that one constructor call allocates together carry the
\* same index, so a pointer is the index of the allocation it points to and
\* NULL is nullptr.  A freed object keeps its last content and is counted in
\* "deleted"; reading a freed LifetimeMutator record yields any value,
\* deleting it a second time or reading through nullptr leaves the behaviour
\* undefined ("crashed").
EXTENDS Integers, FiniteSets, TLC

MaxAddr == 3
MaxAlloc == 2
MaxVal == 1
MaxThread == 2

NULL == 0

Addrs == 1..MaxAddr
Allocs == 1..MaxAlloc
Recs == 1..MaxAlloc
Values == 0..MaxVal
Threads == 1..MaxThread

VARIABLES
    handles,  \* address -> the five pointer members of the Lifetime living there
    val,      \* allocation -> the T object
    own,      \* allocation -> content of the owner cell
    mut,      \* allocation -> content of the mutator cell
    refs,     \* allocation -> content of the std::set of handle addresses
    recs,     \* LifetimeMutator records: state, m_mutator, content of *m_mutatorAccess
    deleted,  \* allocation -> how often each of its heap objects was deleted
    nAlloc,   \* number of allocations made so far
    copyOf,   \* allocation -> the allocation clone copied its value from, if any
    crashed,  \* undefined behaviour without a defined continuation has happened
    last,     \* the last call: operation, calling handle, result, returned value
    written,  \* allocation -> the value of the last store the program made into the T object
    lock,     \* allocation -> the thread that holds the std::mutex, if any
    pc,       \* thread -> the statement the thread is at
    loc       \* thread -> the locals of its call: handle, argument, new handle, result

vars == <<handles, val, own, mut, refs, recs, deleted, nAlloc, copyOf, crashed, last,
          written, lock, pc, loc>>

\* The state of the threads, which the single-threaded program leaves alone.
tvars == <<lock, pc, loc>>

\* A Lifetime whose members are all nullptr: no handle lives at the address.
NoHandle == [m_T |-> NULL, m_owner |-> NULL, m_mutex |-> NULL, m_mutator |-> NULL, m_refs |-> NULL]

\* A LifetimeMutator record that has not been allocated.
NoRec == [state |-> "none", m_mutator |-> NULL, access |-> NULL]

NoneDeleted == [T |-> 0, owner |-> 0, refs |-> 0, mutex |-> 0, mutator |-> 0]

Live == {a \in Addrs : handles[a] # NoHandle}

FreeRecs == {r \in Recs : recs[r].state = "none"}

Min(S) == CHOOSE x \in S : \A y \in S : x <= y

Result(op, h, res, ret) == [op |-> op, h |-> h, res |-> res, ret |-> ret]

\* The locals of a thread that is in no call.
NoCall == [op |-> "none", h |-> NULL, v |-> 0, a |-> NULL, res |-> "none"]

\* No thread is running and every mutex is free.
InitThreads ==
    /\ lock = [g \in Allocs |-> NULL]
    /\ pc = [t \in Threads |-> "idle"]
    /\ loc = [t \in Threads |-> NoCall]

Init ==
    /\ handles = [a \in Addrs |-> NoHandle]
    /\ val = [g \in Allocs |-> 0]
    /\ own = [g \in Allocs |-> NULL]
    /\ mut = [g \in Allocs |-> NULL]
    /\ refs = [g \in Allocs |-> {}]
    /\ recs = [r \in Recs |-> NoRec]
    /\ deleted = [g \in Allocs |-> NoneDeleted]
    /\ nAlloc = 0
    /\ copyOf = [g \in Allocs |-> NULL]
    /\ crashed = FALSE
    /\ last = Result("init", NULL, "ok", NULL)
    /\ written = [g \in Allocs |-> 0]
    /\ InitThreads

\* The values the expression (*m_mutator)->m_mutator can yield for the handle
\* at h: the record's field while the record is alive, anything once the
\* record is freed.  Not evaluated when the cell holds nullptr (short circuit).
MutatorRead(h) ==
    LET c == mut[handles[h].m_mutator]
    IN  IF c = NULL THEN {NULL}
        ELSE IF recs[c].state = "live" THEN {recs[c].m_mutator}
        ELSE Addrs \cup {NULL}

\* LifetimeMutator::LifetimeMutator(mutator, mutator_access), with
\* mutator_access the fresh cell the caller allocates for it.
LifetimeMutator(r, mutator) ==
    recs' = [recs EXCEPT ![r] = [state |-> "live", m_mutator |-> mutator, access |-> r]]

\* delete of the record r: ~LifetimeMutator clears the record's own field and
\* the cell m_mutatorAccess points to, which is the record's private cell, not
\* the group's mutator cell; then the record is freed.
DeleteLifetimeMutator(r) ==
    recs' = [recs EXCEPT ![r] = [state |-> "freed", m_mutator |-> NULL, access |-> NULL]]

\* Lifetime::Lifetime at address this.  A nullptr argument makes the
\* constructor allocate the object, at index nAlloc + 1.
Lifetime(this, child, ownership, mutator, mutx, set, force_take_ownership, force_take_mutability) ==
    LET n == nAlloc + 1
        pm == IF mutator = NULL THEN n ELSE mutator
        po == IF ownership = NULL THEN n ELSE ownership
        px == IF mutx = NULL THEN n ELSE mutx
        ps == IF set = NULL THEN n ELSE set
        cell0 == IF mutator = NULL THEN NULL ELSE mut[pm]
        own0 == IF ownership = NULL THEN this ELSE own[po]
        refs0 == IF set = NULL THEN {} ELSE refs[ps]
    IN  /\ handles' = [handles EXCEPT ![this] =
               [m_T |-> child, m_owner |-> po, m_mutex |-> px, m_mutator |-> pm, m_refs |-> ps]]
        /\ IF force_take_mutability /\ cell0 = NULL
           THEN /\ FreeRecs # {}
                /\ LifetimeMutator(Min(FreeRecs), this)
                /\ mut' = [mut EXCEPT ![pm] = Min(FreeRecs)]
           ELSE /\ mut' = [mut EXCEPT ![pm] = cell0]
                /\ UNCHANGED recs
        /\ own' = [own EXCEPT ![po] =
               IF force_take_ownership /\ own0 # this THEN this ELSE own0]
        /\ refs' = [refs EXCEPT ![ps] = refs0 \cup {this}]

\* Lifetime::from(value), the returned handle constructed at address a.
from(a, value) ==
    /\ ~crashed
    /\ nAlloc < MaxAlloc
    /\ a \notin Live
    /\ val' = [val EXCEPT ![nAlloc + 1] = value]
    /\ written' = [written EXCEPT ![nAlloc + 1] = value]
    /\ Lifetime(a, nAlloc + 1, NULL, NULL, NULL, NULL, FALSE, FALSE)
    /\ nAlloc' = nAlloc + 1
    /\ UNCHANGED <<deleted, crashed>>

From(a, value) ==
    /\ from(a, value)
    /\ UNCHANGED copyOf
    /\ last' = Result("from", NULL, "ok", a)

\* The test of get_mutable and set, with x the value read from the record.
Writable(h, x) ==
    \/ mut[handles[h].m_mutator] # NULL /\ x = h
    \/ h = own[handles[h].m_owner]

\* set that stores the value before it tests ownership and mutability.
Set_StoreFirst(h, value) ==
    /\ ~crashed
    /\ h \in Live
    /\ val' = [val EXCEPT ![handles[h].m_T] = value]
    /\ \E x \in MutatorRead(h) :
          IF Writable(h, x)
          THEN /\ written' = [written EXCEPT ![handles[h].m_T] = value]
               /\ last' = Result("set", h, "ok", NULL)
          ELSE /\ UNCHANGED written
               /\ last' = Result("set", h, "not-writable", NULL)
    /\ UNCHANGED <<handles, own, mut, refs, recs, deleted, nAlloc, copyOf, crashed>>

\* set that passes its test and returns without the assignment to *m_T.
Set_NoStore(h, value) ==
    /\ ~crashed
    /\ h \in Live
    /\ \E x \in MutatorRead(h) :
          IF Writable(h, x)
          THEN /\ written' = [written EXCEPT ![handles[h].m_T] = value]
               /\ last' = Result("set", h, "ok", NULL)
          ELSE /\ UNCHANGED written
               /\ last' = Result("set", h, "not-writable", NULL)
    /\ UNCHANGED <<handles, val, own, mut, refs, recs, deleted, nAlloc, copyOf, crashed>>

Set(h, value) ==
    /\ ~crashed
    /\ h \in Live
    /\ \E x \in MutatorRead(h) :
          IF Writable(h, x)
          THEN /\ val' = [val EXCEPT ![handles[h].m_T] = value]
               /\ written' = [written EXCEPT ![handles[h].m_T] = value]
               /\ last' = Result("set", h, "ok", NULL)
          ELSE /\ UNCHANGED <<val, written>>
               /\ last' = Result("set", h, "not-writable", NULL)
    /\ UNCHANGED <<handles, own, mut, refs, recs, deleted, nAlloc, copyOf, crashed>>

\* get_mutable returns a reference to the T object.
GetMutable(h) ==
    /\ ~crashed
    /\ h \in Live
    /\ \E x \in MutatorRead(h) :
          IF Writable(h, x)
          THEN last' = Result("get_mutable", h, "ok", handles[h].m_T)
          ELSE last' = Result("get_mutable", h, "not-writable", NULL)
    /\ UNCHANGED <<handles, val, written, own, mut, refs, recs, deleted, nAlloc, copyOf, crashed>>

Get(h) ==
    /\ ~crashed
    /\ h \in Live
    /\ last' = Result("get", h, "ok", val[handles[h].m_T])
    /\ UNCHANGED <<handles, val, written, own, mut, refs, recs, deleted, nAlloc, copyOf, crashed>>

Borrow(h) ==
    /\ ~crashed
    /\ h \in Live
    /\ \E a \in Addrs \ Live :
          /\ Lifetime(a, handles[h].m_T, handles[h].m_owner, handles[h].m_mutator,
                      handles[h].m_mutex, handles[h].m_refs, FALSE, FALSE)
          /\ last' = Result("borrow", h, "ok", a)
    /\ UNCHANGED <<val, written, deleted, nAlloc, copyOf, crashed>>

\* borrow_mutable without the test of the mutator cell.
BorrowMutable_NoCheck(h) ==
    /\ ~crashed
    /\ h \in Live
    /\ \E a \in Addrs \ Live :
          /\ Lifetime(a, handles[h].m_T, handles[h].m_owner, handles[h].m_mutator,
                      handles[h].m_mutex, handles[h].m_refs, FALSE, TRUE)
          /\ last' = Result("borrow_mutable", h, "ok", a)
    /\ UNCHANGED <<val, written, deleted, nAlloc, copyOf, crashed>>

BorrowMutable(h) ==
    /\ ~crashed
    /\ h \in Live
    /\ IF mut[handles[h].m_mutator] # NULL
       THEN /\ last' = Result("borrow_mutable", h, "already-mutable-borrowed", NULL)
            /\ UNCHANGED <<handles, own, mut, refs, recs>>
       ELSE \E a \in Addrs \ Live :
               /\ Lifetime(a, handles[h].m_T, handles[h].m_owner, handles[h].m_mutator,
                           handles[h].m_mutex, handles[h].m_refs, FALSE, TRUE)
               /\ last' = Result("borrow_mutable", h, "ok", a)
    /\ UNCHANGED <<val, written, deleted, nAlloc, copyOf, crashed>>

\* clone that hands the new handle the source's value object instead of a
\* copy of it.
Clone_Shallow(h) ==
    /\ ~crashed
    /\ h \in Live
    /\ nAlloc < MaxAlloc
    /\ \E a \in Addrs \ Live :
          /\ Lifetime(a, handles[h].m_T, NULL, NULL, NULL, NULL, FALSE, FALSE)
          /\ last' = Result("clone", h, "ok", a)
    /\ nAlloc' = nAlloc + 1
    /\ copyOf' = [copyOf EXCEPT ![nAlloc + 1] = handles[h].m_T]
    /\ UNCHANGED <<val, written, deleted, crashed>>

Clone(h) ==
    /\ ~crashed
    /\ h \in Live
    /\ \E a \in Addrs \ Live :
          /\ from(a, val[handles[h].m_T])
          /\ copyOf' = [copyOf EXCEPT ![nAlloc + 1] = handles[h].m_T]
          /\ last' = Result("clone", h, "ok", a)

\* is_mutator tests the member m_mutator, which is never nullptr, and then
\* reads through the content of the cell, nullptr or not.
IsMutator(h) ==
    /\ ~crashed
    /\ h \in Live
    /\ IF mut[handles[h].m_mutator] = NULL
       THEN \E res \in {"crash", "true", "false"} :
               /\ last' = Result("is_mutator", h, res, NULL)
               /\ crashed' = (res = "crash")
       ELSE /\ \E x \in MutatorRead(h) :
                  last' = Result("is_mutator", h, IF x = h THEN "true" ELSE "false", NULL)
            /\ UNCHANGED crashed
    /\ UNCHANGED <<handles, val, written, own, mut, refs, recs, deleted, nAlloc, copyOf>>

IsOwner(h) ==
    /\ ~crashed
    /\ h \in Live
    /\ last' = Result("is_owner", h, IF h = own[handles[h].m_owner] THEN "true" ELSE "false", NULL)
    /\ UNCHANGED <<handles, val, written, own, mut, refs, recs, deleted, nAlloc, copyOf, crashed>>

\* move(), the move_out of the specification.
Move(h) ==
    /\ ~crashed
    /\ h \in Live
    /\ IF h # own[handles[h].m_owner]
       THEN /\ last' = Result("move", h, "not-owner", NULL)
            /\ UNCHANGED <<handles, own, mut, refs, recs>>
       ELSE \E a \in Addrs \ Live :
               /\ Lifetime(a, handles[h].m_T, handles[h].m_owner, handles[h].m_mutator,
                           handles[h].m_mutex, handles[h].m_refs, TRUE, FALSE)
               /\ last' = Result("move", h, "ok", a)
    /\ UNCHANGED <<val, written, deleted, nAlloc, copyOf, crashed>>

\* move(Lifetime&), the move_to of the specification.  Its first test, at
\* line 190, compares this, the address of a Lifetime, with m_owner, the
\* address of the owner cell, not with the content of the cell: the two are
\* never equal, so every call throws there and lines 192-203 (the same-handle
\* test, the membership test, the delete of the record and the assignments)
\* are never reached.
ThisIsOwnerCell(h) == FALSE

MoveTo(h, other) ==
    /\ ~crashed
    /\ h \in Live
    /\ other \in Live
    /\ IF ~ThisIsOwnerCell(h)
       THEN last' = Result("move_to", h, "not-owner", NULL)
       ELSE IF h = other
       THEN last' = Result("move_to", h, "same-handle", NULL)
       ELSE IF other \notin refs[handles[h].m_refs]
       THEN last' = Result("move_to", h, "foreign-group", NULL)
       ELSE last' = Result("move_to", h, "ok", NULL)
    /\ UNCHANGED <<handles, val, written, own, mut, refs, recs, deleted, nAlloc, copyOf, crashed>>

\* ~Lifetime from the erase on: the handle leaves the set; the owner throws
\* when members remain; the value, the owner cell and the set are deleted
\* when the set is empty.  The mutex and the mutator cell are never deleted.
Remove(h) ==
    LET s == handles[h].m_refs
        refs1 == refs[s] \ {h}
    IN  /\ handles' = [handles EXCEPT ![h] = NoHandle]
        /\ refs' = [refs EXCEPT ![s] = refs1]
        /\ IF h = own[handles[h].m_owner] /\ refs1 # {}
           THEN /\ last' = Result("destroy", h, "owner-dropped-with-live-borrows", NULL)
                /\ UNCHANGED deleted
           ELSE /\ last' = Result("destroy", h, "ok", NULL)
                /\ IF refs1 = {}
                   THEN deleted' = [deleted EXCEPT
                            ![handles[h].m_T].T = @ + 1,
                            ![handles[h].m_owner].owner = @ + 1,
                            ![s].refs = @ + 1]
                   ELSE UNCHANGED deleted
        /\ UNCHANGED <<val, written, own, mut, nAlloc, copyOf, crashed>>

\* ~Lifetime.
Destroy(h) ==
    /\ ~crashed
    /\ h \in Live
    /\ \E x \in MutatorRead(h) :
          LET c == mut[handles[h].m_mutator]
          IN  IF c # NULL /\ x = h
              THEN IF recs[c].state = "live"
                   THEN DeleteLifetimeMutator(c) /\ Remove(h)
                   ELSE /\ crashed' = TRUE
                        /\ last' = Result("destroy", h, "crash", NULL)
                        /\ UNCHANGED <<handles, val, written, own, mut, refs, recs, deleted, nAlloc, copyOf>>
              ELSE UNCHANGED recs /\ Remove(h)

Next ==
    \/ \E a \in Addrs, v \in Values : From(a, v) /\ UNCHANGED tvars
    \/ \E h \in Addrs, v \in Values : Set(h, v) /\ UNCHANGED tvars
    \/ \E h \in Addrs : GetMutable(h) /\ UNCHANGED tvars
    \/ \E h \in Addrs : Get(h) /\ UNCHANGED tvars
    \/ \E h \in Addrs : Borrow(h) /\ UNCHANGED tvars
    \/ \E h \in Addrs : BorrowMutable(h) /\ UNCHANGED tvars
    \/ \E h \in Addrs : Clone(h) /\ UNCHANGED tvars
    \/ \E h \in Addrs : IsMutator(h) /\ UNCHANGED tvars
    \/ \E h \in Addrs : IsOwner(h) /\ UNCHANGED tvars
    \/ \E h \in Addrs : Move(h) /\ UNCHANGED tvars
    \/ \E h \in Addrs, other \in Addrs : MoveTo(h, other) /\ UNCHANGED tvars
    \/ \E h \in Addrs : Destroy(h) /\ UNCHANGED tvars

Spec == Init /\ [][Next]_vars

\* ---------------------------------------------------------------------
\* The member functions called from several threads.  A thread executes a
\* call statement by statement; the statements of different threads
\* interleave.  The only synchronisation in lifetime.hpp is the
\* std::scoped_lock of set and get_mutable.

\* The names of the objects the call of thread t works on.
Cell(t) == handles[loc[t].h].m_mutator
Mutex(t) == handles[loc[t].h].m_mutex

\* The threads inside borrow_mutable.
InBorrowMutable == {t \in Threads : pc[t] \in {"bm_check", "ctor_test", "ctor_take", "ctor_rest"}}

\* The addresses callers have set aside for a handle under construction.
Reserved == {loc[t].a : t \in InBorrowMutable}

Goto(t, label) == pc' = [pc EXCEPT ![t] = label]

\* Thread t calls h.borrow_mutable(); the result will be constructed at a.
TCallBorrowMutable(t, h, a) ==
    /\ ~crashed
    /\ pc[t] = "idle"
    /\ h \in Live
    /\ a \in Addrs \ (Live \cup Reserved)
    /\ Cardinality(FreeRecs) > Cardinality(InBorrowMutable)
    /\ Goto(t, "bm_check")
    /\ loc' = [loc EXCEPT ![t] = [op |-> "borrow_mutable", h |-> h, v |-> 0, a |-> a, res |-> "none"]]
    /\ UNCHANGED <<handles, val, written, own, mut, refs, recs, deleted, nAlloc, copyOf, crashed, last, lock>>

\* borrow_mutable, line 159: the test of the mutator cell.
TBmCheck(t) ==
    /\ ~crashed
    /\ pc[t] = "bm_check"
    /\ IF mut[Cell(t)] # NULL
       THEN /\ Goto(t, "ret")
            /\ loc' = [loc EXCEPT ![t].res = "already-mutable-borrowed", ![t].a = NULL]
       ELSE /\ Goto(t, "ctor_test")
            /\ UNCHANGED loc
    /\ UNCHANGED <<handles, val, written, own, mut, refs, recs, deleted, nAlloc, copyOf, crashed, last, lock>>

\* The constructor, lines 46-48: force_take_mutability is true, the mutator
\* cell is tested again.
TCtorTest(t) ==
    /\ ~crashed
    /\ pc[t] = "ctor_test"
    /\ IF mut[Cell(t)] = NULL THEN Goto(t, "ctor_take") ELSE Goto(t, "ctor_rest")
    /\ UNCHANGED <<handles, val, written, own, mut, refs, recs, deleted, nAlloc, copyOf, crashed, last, lock, loc>>

\* The constructor, line 49: a new record for this handle is stored in the
\* mutator cell.
TCtorTake(t) ==
    /\ ~crashed
    /\ pc[t] = "ctor_take"
    /\ FreeRecs # {}
    /\ LifetimeMutator(Min(FreeRecs), loc[t].a)
    /\ mut' = [mut EXCEPT ![Cell(t)] = Min(FreeRecs)]
    /\ Goto(t, "ctor_rest")
    /\ UNCHANGED <<handles, val, written, own, refs, deleted, nAlloc, copyOf, crashed, last, lock, loc>>

\* The constructor, lines 50-54, and the return of borrow_mutable.
TCtorRest(t) ==
    LET h == loc[t].h
    IN  /\ ~crashed
        /\ pc[t] = "ctor_rest"
        /\ Lifetime(loc[t].a, handles[h].m_T, handles[h].m_owner, handles[h].m_mutator,
                    handles[h].m_mutex, handles[h].m_refs, FALSE, FALSE)
        /\ Goto(t, "ret")
        /\ loc' = [loc EXCEPT ![t].res = "ok"]
        /\ UNCHANGED <<val, written, deleted, nAlloc, copyOf, crashed, last, lock>>

\* Thread t calls h.set(value).
TCallSet(t, h, value) ==
    /\ ~crashed
    /\ pc[t] = "idle"
    /\ h \in Live
    /\ Goto(t, "set_test")
    /\ loc' = [loc EXCEPT ![t] = [op |-> "set", h |-> h, v |-> value, a |-> NULL, res |-> "none"]]
    /\ UNCHANGED <<handles, val, written, own, mut, refs, recs, deleted, nAlloc, copyOf, crashed, last, lock>>

\* set, lines 134-135: the test, which throws before the lock is taken.
TSetTest(t) ==
    /\ ~crashed
    /\ pc[t] = "set_test"
    /\ \E x \in MutatorRead(loc[t].h) :
          IF Writable(loc[t].h, x)
          THEN /\ Goto(t, "set_lock")
               /\ UNCHANGED loc
          ELSE /\ Goto(t, "ret")
               /\ loc' = [loc EXCEPT ![t].res = "not-writable"]
    /\ UNCHANGED <<handles, val, written, own, mut, refs, recs, deleted, nAlloc, copyOf, crashed, last, lock>>

\* set, line 137: the scoped_lock is constructed when the mutex is free.
TSetLock(t) ==
    /\ ~crashed
    /\ pc[t] = "set_lock"
    /\ lock[Mutex(t)] = NULL
    /\ lock' = [lock EXCEPT ![Mutex(t)] = t]
    /\ Goto(t, "set_store")
    /\ UNCHANGED <<handles, val, written, own, mut, refs, recs, deleted, nAlloc, copyOf, crashed, last, loc>>

\* set that returns with the mutex still locked.
TSetStore_KeepLock(t) ==
    /\ ~crashed
    /\ pc[t] = "set_store"
    /\ val' = [val EXCEPT ![handles[loc[t].h].m_T] = loc[t].v]
    /\ written' = [written EXCEPT ![handles[loc[t].h].m_T] = loc[t].v]
    /\ Goto(t, "ret")
    /\ loc' = [loc EXCEPT ![t].res = "ok"]
    /\ UNCHANGED <<handles, own, mut, refs, recs, deleted, nAlloc, copyOf, crashed, last, lock>>

\* set, lines 139-140: the store, and the scoped_lock destroyed at the end of
\* the function.
TSetStore(t) ==
    /\ ~crashed
    /\ pc[t] = "set_store"
    /\ val' = [val EXCEPT ![handles[loc[t].h].m_T] = loc[t].v]
    /\ written' = [written EXCEPT ![handles[loc[t].h].m_T] = loc[t].v]
    /\ lock' = [lock EXCEPT ![Mutex(t)] = NULL]
    /\ Goto(t, "ret")
    /\ loc' = [loc EXCEPT ![t].res = "ok"]
    /\ UNCHANGED <<handles, own, mut, refs, recs, deleted, nAlloc, copyOf, crashed, last>>

\* Thread t calls h.get_mutable().
TCallGetMutable(t, h) ==
    /\ ~crashed
    /\ pc[t] = "idle"
    /\ h \in Live
    /\ Goto(t, "gm_test")
    /\ loc' = [loc EXCEPT ![t] = [op |-> "get_mutable", h |-> h, v |-> 0, a |-> NULL, res |-> "none"]]
    /\ UNCHANGED <<handles, val, written, own, mut, refs, recs, deleted, nAlloc, copyOf, crashed, last, lock>>

\* get_mutable, lines 118-119.
TGmTest(t) ==
    /\ ~crashed
    /\ pc[t] = "gm_test"
    /\ \E x \in MutatorRead(loc[t].h) :
          IF Writable(loc[t].h, x)
          THEN /\ Goto(t, "gm_lock")
               /\ UNCHANGED loc
          ELSE /\ Goto(t, "ret")
               /\ loc' = [loc EXCEPT ![t].res = "not-writable"]
    /\ UNCHANGED <<handles, val, written, own, mut, refs, recs, deleted, nAlloc, copyOf, crashed, last, lock>>

\* get_mutable, line 121.
TGmLock(t) ==
    /\ ~crashed
    /\ pc[t] = "gm_lock"
    /\ lock[Mutex(t)] = NULL
    /\ lock' = [lock EXCEPT ![Mutex(t)] = t]
    /\ Goto(t, "gm_return")
    /\ UNCHANGED <<handles, val, written, own, mut, refs, recs, deleted, nAlloc, copyOf, crashed, last, loc>>

\* get_mutable, lines 123-124: the reference is returned and the scoped_lock,
\* a local of the function, is destroyed.  The caller now holds the view.
TGmReturn(t) ==
    /\ ~crashed
    /\ pc[t] = "gm_return"
    /\ lock' = [lock EXCEPT ![Mutex(t)] = NULL]
    /\ Goto(t, "view")
    /\ loc' = [loc EXCEPT ![t].res = "ok"]
    /\ UNCHANGED <<handles, val, written, own, mut, refs, recs, deleted, nAlloc, copyOf, crashed, last>>

\* The caller assigns through the reference get_mutable returned.
TViewWrite(t, value) ==
    /\ ~crashed
    /\ pc[t] = "view"
    /\ val' = [val EXCEPT ![handles[loc[t].h].m_T] = value]
    /\ written' = [written EXCEPT ![handles[loc[t].h].m_T] = value]
    /\ UNCHANGED <<handles, own, mut, refs, recs, deleted, nAlloc, copyOf, crashed, last, lock, pc, loc>>

\* The caller is done with the reference.
TViewEnd(t) ==
    /\ ~crashed
    /\ pc[t] = "view"
    /\ Goto(t, "idle")
    /\ loc' = [loc EXCEPT ![t] = NoCall]
    /\ UNCHANGED <<handles, val, written, own, mut, refs, recs, deleted, nAlloc, copyOf, crashed, last, lock>>

\* The call of thread t has returned or thrown; the caller goes on.
TReturn(t) ==
    /\ ~crashed
    /\ pc[t] = "ret"
    /\ Goto(t, "idle")
    /\ loc' = [loc EXCEPT ![t] = NoCall]
    /\ UNCHANGED <<handles, val, written, own, mut, refs, recs, deleted, nAlloc, copyOf, crashed, last, lock>>

\* No thread is at work: the main thread has the handles to itself.
AllIdle == \A t \in Threads : pc[t] = "idle"

NextThreads ==
    \/ \E a \in Addrs, v \in Values : AllIdle /\ From(a, v) /\ UNCHANGED tvars
    \/ \E t \in Threads, h \in Addrs, a \in Addrs : TCallBorrowMutable(t, h, a)
    \/ \E t \in Threads : TBmCheck(t)
    \/ \E t \in Threads : TCtorTest(t)
    \/ \E t \in Threads : TCtorTake(t)
    \/ \E t \in Threads : TCtorRest(t)
    \/ \E t \in Threads, h \in Addrs, v \in Values : TCallSet(t, h, v)
    \/ \E t \in Threads : TSetTest(t)
    \/ \E t \in Threads : TSetLock(t)
    \/ \E t \in Threads : TSetStore(t)
    \/ \E t \in Threads, h \in Addrs : TCallGetMutable(t, h)
    \/ \E t \in Threads : TGmTest(t)
    \/ \E t \in Threads : TGmLock(t)
    \/ \E t \in Threads : TGmReturn(t)
    \/ \E t \in Threads, v \in Values : TViewWrite(t, v)
    \/ \E t \in Threads : TViewEnd(t)
    \/ \E t \in Threads : TReturn(t)

\* The steps of thread t inside a call that need no mutex.
TRun(t) ==
    \/ TBmCheck(t) \/ TCtorTest(t) \/ TCtorTake(t) \/ TCtorRest(t)
    \/ TSetTest(t) \/ TSetStore(t)
    \/ TGmTest(t) \/ TGmReturn(t)
    \/ TViewEnd(t) \/ TReturn(t)

\* The step of thread t that acquires a mutex.
TAcquire(t) == TSetLock(t) \/ TGmLock(t)

\* Fair scheduling: a thread that can run does run, and a thread waiting for a
\* mutex that is free again and again gets it.
Fairness == \A t \in Threads : WF_vars(TRun(t)) /\ SF_vars(TAcquire(t))

SpecThreads == Init /\ [][NextThreads]_vars /\ Fairness

\* ---------------------------------------------------------------------
\* The vocabulary of the claims.

\* A group is identified by the allocation index of its member set.
GroupOf(h) == handles[h].m_refs

\* The groups that exist: allocated, and the member set not yet deleted.
Groups == {g \in 1..nAlloc : deleted[g].refs = 0}

\* h is the owner: the owner cell of its group holds its address.
Owner(h) == h \in Live /\ own[handles[h].m_owner] = h

\* h is the current mutator: the mutator cell of its group designates a
\* living LifetimeMutator record whose handle is h.
Mutator(h) ==
    /\ h \in Live
    /\ mut[handles[h].m_mutator] # NULL
    /\ recs[mut[handles[h].m_mutator]].state = "live"
    /\ recs[mut[handles[h].m_mutator]].m_mutator = h

\* C1: set and get_mutable called on a live handle succeed if and only if the
\* handle is the owner or the current mutator of its group, and fail with
\* not-writable otherwise.  (Neither call changes the bookkeeping, so the
\* state after the call decides who was owner and mutator.)
C1_WriteIffOwnerOrMutator ==
    last.op \in {"set", "get_mutable"} =>
        /\ last.res \in {"ok", "not-writable"}
        /\ (last.res = "ok") <=> (Owner(last.h) \/ Mutator(last.h))

\* C2: destroying the handle that holds the mutable borrow sets the mutator
\* cell of its group back to nullptr, and a borrow_mutable on a group none of
\* whose members is the mutator succeeds.
C2_MutatorReleasedOnDestroy ==
    [][/\ \A h \in Addrs :
              (Mutator(h) /\ handles'[h] = NoHandle) => mut'[handles[h].m_mutator] = NULL
       /\ (last'.op = "borrow_mutable"
              /\ ~ \E m \in refs[GroupOf(last'.h)] : Mutator(m)) => last'.res = "ok"
      ]_vars

\* C3: in every group that exists the mutator cell is nullptr or designates a
\* living record whose handle is a member of the group, and at most one
\* member is the mutator.
C3_MutatorIsMemberOrNone ==
    \A g \in Groups :
        /\ \/ mut[g] = NULL
           \/ recs[mut[g]].state = "live" /\ recs[mut[g]].m_mutator \in refs[g]
        /\ Cardinality({h \in refs[g] : Mutator(h)}) <= 1

\* C4: in every group that exists the member set is not empty and the owner
\* cell holds the address of a member.
C4_OwnerIsMember ==
    \A g \in Groups : refs[g] # {} /\ own[g] \in refs[g]

\* C5: the destructor of the owner reports owner-dropped-with-live-borrows
\* when another member is alive, still removes the handle from the member set
\* and does not delete the value; the destructor of an owner that is the last
\* member reports no error.
C5_OwnerDroppedReported ==
    [][last'.op = "destroy" =>
          LET h == last'.h
              g == GroupOf(h)
          IN  /\ (Owner(h) /\ refs[g] # {h}) =>
                    /\ last'.res = "owner-dropped-with-live-borrows"
                    /\ h \notin refs'[g]
                    /\ deleted'[handles[h].m_T].T = 0
              /\ (Owner(h) /\ refs[g] = {h}) => last'.res = "ok"
      ]_vars

\* C6: borrow_mutable succeeds if and only if the mutator cell of the group
\* holds nullptr.  On success the returned handle is a new member of the same
\* group and is its mutator, and the owner cell is unchanged; otherwise the
\* call fails with already-mutable-borrowed, whichever member calls, and
\* creates no handle.
C6_BorrowMutableIffNoMutator ==
    [][last'.op = "borrow_mutable" =>
          LET h == last'.h
              g == GroupOf(h)
              a == last'.ret
          IN  /\ (last'.res = "ok") <=> (mut[handles[h].m_mutator] = NULL)
              /\ last'.res = "ok" =>
                    /\ a \in Addrs \ Live
                    /\ handles'[a] = handles[h]
                    /\ refs'[g] = refs[g] \cup {a}
                    /\ mut'[handles[h].m_mutator] # NULL
                    /\ recs'[mut'[handles[h].m_mutator]] =
                           [state |-> "live", m_mutator |-> a, access |-> mut'[handles[h].m_mutator]]
                    /\ own' = own
              /\ last'.res # "ok" =>
                    /\ last'.res = "already-mutable-borrowed"
                    /\ UNCHANGED <<handles, refs, mut, recs, own>>
      ]_vars

\* A borrow_mutable made through a member that is not the owner has returned
\* the mutator of the group.
C6_Witness ==
    /\ last.op = "borrow_mutable"
    /\ last.res = "ok"
    /\ ~Owner(last.h)
    /\ Mutator(last.ret)
    /\ GroupOf(last.ret) = GroupOf(last.h)

\* C7: the heap objects of a group (value, owner cell, member set, mutex and
\* mutator cell) are deleted exactly when its last member is destroyed: none
\* while a member is alive, all once the member set is empty, none twice.
C7_FreedExactlyWithLastMember ==
    \A g \in 1..nAlloc :
        /\ refs[g] # {} => deleted[g] = NoneDeleted
        /\ refs[g] = {} => deleted[g] = [T |-> 1, owner |-> 1, refs |-> 1, mutex |-> 1, mutator |-> 1]

\* C8: move called by the owner returns a new handle of the same group that
\* is the owner, and the caller stays a member without being the owner; a set
\* or get_mutable the caller makes next fails with not-writable unless the
\* caller is the mutator, and a set through the new handle succeeds.
C8_MoveOutTransfersOwnership ==
    [][/\ (last'.op = "move" /\ Owner(last'.h)) =>
              /\ last'.res = "ok"
              /\ last'.ret \in Addrs \ Live
              /\ handles'[last'.ret] = handles[last'.h]
              /\ own'[handles[last'.h].m_owner] = last'.ret
              /\ last'.h \in refs'[GroupOf(last'.h)]
       /\ (last.op = "move" /\ last.res = "ok" /\ last'.op \in {"set", "get_mutable"}) =>
              /\ (last'.h = last.h /\ ~Mutator(last.h)) => last'.res = "not-writable"
              /\ (last'.h = last.ret /\ last'.op = "set") => last'.res = "ok"
      ]_vars

\* C9: is_mutator returns a boolean without error, true exactly when the
\* caller is the mutator of its group.
C9_IsMutatorReturnsBoolean ==
    last.op = "is_mutator" =>
        last.res = (IF Mutator(last.h) THEN "true" ELSE "false")

\* C10: clone returns the owner and only member of a new group that has no
\* mutator and whose value is a new object equal to the source's value; clone
\* leaves the value, owner cell, mutator cell and member set of every group
\* that existed unchanged; and a set through a handle changes the value read
\* through no handle of another group.
C10_CloneIsIndependent ==
    [][/\ last'.op = "clone" =>
              LET h == last'.h
                  a == last'.ret
                  n == nAlloc + 1
              IN  /\ last'.res = "ok"
                  /\ a \in Addrs \ Live
                  /\ handles'[a] = [m_T |-> n, m_owner |-> n, m_mutex |-> n, m_mutator |-> n, m_refs |-> n]
                  /\ refs'[n] = {a}
                  /\ own'[n] = a
                  /\ mut'[n] = NULL
                  /\ val'[n] = val[handles[h].m_T]
                  /\ \A g \in 1..nAlloc :
                        /\ val'[g] = val[g]
                        /\ own'[g] = own[g]
                        /\ mut'[g] = mut[g]
                        /\ refs'[g] = refs[g]
                  /\ recs' = recs
       /\ last'.op = "set" =>
              \A k \in Live :
                  GroupOf(k) # GroupOf(last'.h) => val'[handles'[k].m_T] = val[handles[k].m_T]
      ]_vars

\* A successful set on a group that has a mutator has made its value differ
\* from the value of the group cloned from it.
C10_Witness ==
    /\ last.op = "set"
    /\ last.res = "ok"
    /\ \E k \in Live :
          /\ copyOf[handles[k].m_T] = handles[last.h].m_T
          /\ val[handles[k].m_T] # val[handles[last.h].m_T]
          /\ mut[handles[last.h].m_mutator] # NULL

\* What C13 says a call h.move_to(other) does: its result, and the owner cell
\* after it.
MoveToAsClaimed(h, other) ==
    IF ~Owner(h)
    THEN last'.res = "not-owner" /\ UNCHANGED <<own, mut, refs>>
    ELSE IF other = h
    THEN last'.res = "same-handle" /\ UNCHANGED <<own, mut, refs>>
    ELSE IF other \notin refs[GroupOf(h)]
    THEN last'.res = "foreign-group" /\ UNCHANGED <<own, mut, refs>>
    ELSE /\ last'.res = "ok"
         /\ own'[handles[h].m_owner] = other
         /\ refs' = refs

\* C13: move_to(other) called by the owner with another member of its group
\* makes other the owner; called by a handle that is not the owner it fails
\* with not-owner, with other the caller itself with same-handle, with other
\* not a member of the group with foreign-group; a failing call leaves owner,
\* mutator and member set unchanged.
C13_MoveToTransfersOwnership ==
    [][\A h \in Addrs, other \in Addrs :
          (MoveTo(h, other) /\ UNCHANGED tvars) => MoveToAsClaimed(h, other)
      ]_vars

\* C14: a successful ownership transfer sets the mutator cell to nullptr when
\* the transferring handle is the mutator, and leaves the mutator cell and the
\* records unchanged otherwise.
C14_TransferClearsOwnMutatorOnly ==
    [][(last'.op \in {"move", "move_to"} /\ last'.res = "ok") =>
          LET h == last'.h
              c == handles[h].m_mutator
          IN  IF Mutator(h)
              THEN mut'[c] = NULL
              ELSE mut'[c] = mut[c] /\ recs' = recs
      ]_vars

\* C15: a set or get_mutable that fails with not-writable, a borrow_mutable
\* that fails with already-mutable-borrowed and a move that fails with
\* not-owner leave the values, the owner cells, the mutator cells and records
\* and the member sets as they were, and make no handle.
C15_FailedCallChangesNothing ==
    [][(/\ last'.op \in {"set", "get_mutable", "borrow_mutable", "move"}
        /\ last'.res \in {"not-writable", "already-mutable-borrowed", "not-owner"}) =>
          UNCHANGED <<handles, val, own, mut, refs, recs, deleted, nAlloc>>
      ]_vars

\* A set has failed with not-writable on a group that has a mutator and whose
\* value differs from the value of the group cloned from it.
C15_Witness ==
    /\ last.op = "set"
    /\ last.res = "not-writable"
    /\ \E m \in refs[GroupOf(last.h)] : Mutator(m)
    /\ \E k \in Live :
          /\ copyOf[handles[k].m_T] = handles[last.h].m_T
          /\ val[handles[k].m_T] # val[handles[last.h].m_T]

\* C16: the members of a group share one value object; what get returns, and
\* what it would return through every live handle, is the value of the last
\* successful set on the group, or the value the group was made with when
\* there was none.
C16_ReadReturnsLastWrite ==
    /\ \A h \in Live, k \in Live :
          GroupOf(h) = GroupOf(k) => handles[h].m_T = handles[k].m_T
    /\ \A h \in Live : val[handles[h].m_T] = written[handles[h].m_T]
    /\ last.op = "get" => last.ret = written[handles[last.h].m_T]

\* A get through a handle that is neither owner nor mutator has returned a
\* value that a set stored after the group was cloned.
C16_Witness ==
    /\ last.op = "get"
    /\ ~Owner(last.h)
    /\ ~Mutator(last.h)
    /\ \E m \in refs[GroupOf(last.h)] : Mutator(m)
    /\ \E k \in Live :
          /\ copyOf[handles[k].m_T] = handles[last.h].m_T
          /\ val[handles[k].m_T] # last.ret

\* C17: borrow never fails, adds exactly the returned handle to the member
\* set and leaves value, owner cell and mutator cell unchanged; the returned
\* handle is neither owner nor mutator and reads the value the caller reads.
C17_BorrowAddsPlainMember ==
    [][last'.op = "borrow" =>
          LET h == last'.h
              a == last'.ret
          IN  /\ last'.res = "ok"
              /\ a \in Addrs \ Live
              /\ handles'[a] = handles[h]
              /\ refs'[GroupOf(h)] = refs[GroupOf(h)] \cup {a}
              /\ UNCHANGED <<val, own, mut, recs>>
              /\ own'[handles'[a].m_owner] # a
              /\ ~ (/\ mut'[handles'[a].m_mutator] # NULL
                    /\ recs'[mut'[handles'[a].m_mutator]].state = "live"
                    /\ recs'[mut'[handles'[a].m_mutator]].m_mutator = a)
              /\ val'[handles'[a].m_T] = val[handles[h].m_T]
      ]_vars

\* C19: set, get_mutable, is_mutator and the destructor, which read the
\* record the mutator cell designates whenever the cell is not nullptr, never
\* find the cell designating a record that has been freed.
C19_NoReadOfFreedRecord ==
    [][last'.op \in {"set", "get_mutable", "is_mutator", "destroy"} =>
          LET c == mut[handles[last'.h].m_mutator]
          IN  c = NULL \/ recs[c].state = "live"
      ]_vars

\* C20: once the owner cell of a group designates no member (the owner was
\* destroyed while members remained), the group has no owner for as long as it
\* has members: is_owner returns false, move fails with not-owner, a set
\* succeeds only for the mutator and a destructor reports no error.
C20_NoOwnerAfterOwnerDropped ==
    [][\A g \in Groups :
          (refs[g] # {} /\ own[g] \notin refs[g]) =>
              /\ refs'[g] # {} => own'[g] \notin refs'[g]
              /\ (last'.h \in refs[g] /\ last'.op = "is_owner") => last'.res = "false"
              /\ (last'.h \in refs[g] /\ last'.op = "move") => last'.res = "not-owner"
              /\ (last'.h \in refs[g] /\ last'.op = "set" /\ last'.res = "ok") => Mutator(last'.h)
              /\ (last'.h \in refs[g] /\ last'.op = "destroy") => last'.res = "ok"
              /\ refs'[g] = {} => deleted'[g].T = 1
      ]_vars

\* ---------------------------------------------------------------------
\* The claims about concurrent calls, stated for SpecThreads.

\* C11: a borrow_mutable call that returns a handle returns the group's
\* mutator: of two concurrent calls on a group without mutator one gets the
\* mutator and the other fails with already-mutable-borrowed.
C11_ConcurrentBorrowMutableExclusive ==
    \A t \in Threads :
        (pc[t] = "ret" /\ loc[t].op = "borrow_mutable" /\ loc[t].res = "ok")
            => Mutator(loc[t].a)

\* Thread t modifies the value of allocation g: it is at the store of set or
\* holds a view get_mutable returned.
Modifies(t, g) ==
    /\ pc[t] \in {"set_store", "view"}
    /\ handles[loc[t].h].m_T = g

\* C12: while a thread uses the view get_mutable returned, it holds the
\* group's mutex, and no other thread modifies the same value.
C12_ViewHoldsLock ==
    \A t \in Threads :
        pc[t] = "view" =>
            /\ lock[Mutex(t)] = t
            /\ \A u \in Threads \ {t} : ~Modifies(u, handles[loc[t].h].m_T)

\* Thread t is inside set or get_mutable.
InWriteCall(t) ==
    pc[t] \in {"set_test", "set_lock", "set_store", "gm_test", "gm_lock", "gm_return"}

\* Thread t is between the construction and the destruction of a scoped_lock.
HoldsLock(t, g) ==
    /\ pc[t] \in {"set_store", "gm_return"}
    /\ Mutex(t) = g

\* C18: under fair scheduling every set and get_mutable call returns, and a
\* mutex is locked only by a thread that is inside its scoped_lock, so it is
\* free whenever no such call is in progress.
C18_WriteCallsReturn ==
    /\ \A t \in Threads : InWriteCall(t) ~> ~InWriteCall(t)
    /\ [](\A g \in Allocs : lock[g] # NULL => HoldsLock(lock[g], g))

\* A thread waits for the mutex another thread holds.
C18_Witness ==
    \E t, u \in Threads :
        /\ t # u
        /\ pc[t] \in {"set_lock", "gm_lock"}
        /\ lock[Mutex(t)] = u
        /\ (Owner(loc[t].h) \/ Mutator(loc[t].h))

====
